---- MODULE Spec2Model ----
(***************************************************************************)
(* Model of hurdle2/generate_band_plan.py: generate_band_plan, the         *)
(* rejection-sampling placement of non-overlapping signals on a grid of    *)
(* frequency bins.                                                         *)
(*                                                                         *)
(* Conventions.                                                            *)
(*  - Python lists are TLA+ sequences; a Python index i is position i+1.   *)
(*  - A Python dict is a function on its keys (a record); a key that has   *)
(*    not been assigned yet is not in its DOMAIN.                          *)
(*  - A Python set s is [set |-> s] and a Python list of bins q is          *)
(*    [list |-> q], so that a dict whose sets were turned into lists can   *)
(*    be told from the dict it was.                                        *)
(*  - Frequencies are exact rationals with denominator 2*n_bins and are    *)
(*    stored as their numerators: i*bin_bandwidth - channel_bandwidth/2    *)
(*    is channel_bandwidth*(2*i - n_bins) / (2*n_bins).                    *)
(*  - random.uniform is drawn on the integer points of its interval.       *)
(*  - The pseudo-random generator is a function of its seed: the values it *)
(*    returns for a seed form a fixed stream.  The stream is materialised  *)
(*    lazily in `tape` while the first of two calls runs, and a second     *)
(*    call that seeds the generator alike reads it back.                   *)
(***************************************************************************)
EXTENDS Integers, Sequences, FiniteSets, TLC

VARIABLES
    channel_bandwidth, n_bins, n_signals, min_snr_db, max_snr_db,
    signal_types, instance_seed, max_signal_bins, max_tries,   \* parameters
    bin_edges, bin_centers, valid_bins,                         \* the grid
    signals, tries, signal,                                     \* the loop
    band_plan,                                                  \* the result
    pc, exc,                                                    \* control
    rng_seed, rng_pos,                                          \* generator
    run, tape, first                                            \* two calls

params == <<channel_bandwidth, n_bins, n_signals, min_snr_db, max_snr_db,
            signal_types, instance_seed, max_signal_bins, max_tries>>
grid   == <<bin_edges, bin_centers, valid_bins>>
locals == <<pc, exc, tries, signals, signal, band_plan>>
rng    == <<rng_seed, rng_pos>>
calls  == <<run, tape, first>>
vars   == <<locals, params, grid, rng, calls>>

(***************************************************************************)
(* Bounds of the model.                                                    *)
(***************************************************************************)
MaxBins    == 4
MaxSignals == 2
MaxTries   == 3

Bandwidths == {3}
SnrLevels  == {15, 16}
AllTypes   == <<"FM", "QPSK">>
TypeLists  == {SubSeq(AllTypes, 1, k) : k \in 0..Len(AllTypes)}
\* instance_seed: <<>> is None, <<"seed", k>> is the seed k
Seeds      == {<<>>, <<"seed", 7>>}

(***************************************************************************)
(* Python helpers.                                                         *)
(***************************************************************************)
SetMin(S) == CHOOSE x \in S : \A y \in S : x <= y
SetMax(S) == CHOOSE x \in S : \A y \in S : x >= y

\* a slice bound as Python normalises it for a list of length len
SliceBound(x, len) ==
    IF x < 0 THEN (IF x + len < 0 THEN 0 ELSE x + len)
             ELSE (IF x > len THEN len ELSE x)

\* seq[lo:hi]
PySlice(seq, lo, hi) ==
    LET a == SliceBound(lo, Len(seq))
        b == SliceBound(hi, Len(seq))
    IN  IF a >= b THEN <<>> ELSE SubSeq(seq, a + 1, b)

\* seq.index(v): the Python index of the first element equal to v
PyIndex(seq, v) ==
    (CHOOSE i \in 1..Len(seq) :
        seq[i] = v /\ \A j \in 1..(i - 1) : seq[j] # v) - 1

PySet(S)  == [set |-> S]
PyList(q) == [list |-> q]

\* int(n/2) for n >= 1
HalfOf(n) == n \div 2

\* list(s) for a set of small non-negative ints: CPython walks the hash
\* table, where an int i sits in slot i mod 8 while the set has fewer than
\* five elements and the slots are distinct
RECURSIVE ListOfSet(_)
ListOfSet(S) ==
    IF S = {} THEN <<>>
    ELSE LET x == CHOOSE e \in S : \A o \in S : (e % 8) <= (o % 8)
         IN  <<x>> \o ListOfSet(S \ {x})

(***************************************************************************)
(* Parameter calculation, lines 90-94.                                     *)
(***************************************************************************)
BinEdges(cb, n)   == [i \in 1..(n + 1) |-> cb * (2 * (i - 1) - n)]
BinCenters(cb, n) == [i \in 1..n |-> cb * (2 * (i - 1) + 1 - n)]

(***************************************************************************)
(* The random module.                                                      *)
(***************************************************************************)
\* uniform(a, b) reaching one above b
RangeSnrAbove(req) ==
    CASE req[1] = "randint" -> req[2]..req[3]
      [] req[1] = "uniform" -> IF req[2] <= req[3] THEN req[2]..(req[3] + 1)
                                                  ELSE req[3]..(req[2] + 1)
      [] req[1] = "choice"  -> 1..req[2]

\* randint(a, b) returning a when the range a..b is empty
RangeLenient(req) ==
    CASE req[1] = "randint" -> IF req[2] <= req[3] THEN req[2]..req[3]
                                                  ELSE {req[2]}
      [] req[1] = "uniform" -> IF req[2] <= req[3] THEN req[2]..req[3]
                                                  ELSE req[3]..req[2]
      [] req[1] = "choice"  -> 1..req[2]

\* the values a request can return; an empty set is a raised exception
\* (randint on an empty range: ValueError, choice of an empty list:
\* IndexError)
Range(req) ==
    CASE req[1] = "randint" -> req[2]..req[3]
      [] req[1] = "uniform" -> IF req[2] <= req[3] THEN req[2]..req[3]
                                                  ELSE req[3]..req[2]
      [] req[1] = "choice"  -> 1..req[2]

\* the seed is ignored
SeedFromOs(a, call) == <<"os", call>>

\* random.seed(a): the state the generator starts from; with a = None it is
\* taken from the operating system, afresh in every call
SeedState(a, call) == IF a = <<>> THEN <<"os", call>> ELSE a

\* the second call reads the first call's stream when seeded alike
Replaying == run = 2 /\ rng_seed = first.seed

\* the values the generator can return for req as its k-th draw of this call
Draw(req, k) ==
    LET pos == rng_pos + k
    IN  IF Replaying /\ pos <= Len(tape) /\ tape[pos].req = req
        THEN {tape[pos].val}
        ELSE Range(req)

\* the stream after the draws ds of this call
Taped(ds) == IF run = 1 THEN tape \o ds ELSE tape

Drawn(req, v) == [req |-> req, val |-> v]

(***************************************************************************)
(* One candidate, lines 111-157.                                           *)
(***************************************************************************)
\* the list the center is chosen from, lines 123-126 and 137-140
CenterList(w) == IF w % 2 = 0 THEN bin_edges ELSE bin_centers

\* no center is excluded
ValidCentersUntrimmed(w) == CenterList(w)

ValidCenters(w) == PySlice(CenterList(w), HalfOf(w), n_bins - HalfOf(w))

\* the span computed one bin too high
OccupiedBinsShifted(ind, w) == {ind - HalfOf(w) + x : x \in 1..w}

\* lines 130-134 and 144-148
OccupiedBins(ind, w) == {ind - HalfOf(w) + x : x \in 0..(w - 1)}

\* guard bins next to the span without the modulo of lines 152-154
GuardBinsNoWrap(occupied) ==
    {SetMin(occupied) - 1, SetMax(occupied) + 1} \cap valid_bins

\* lines 152-157
GuardBins(occupied) ==
    {(SetMin(occupied) - 1) % n_bins, (SetMax(occupied) + 1) % n_bins}
        \cap valid_bins

\* the dict after line 157
Candidate(w, s, center) ==
    LET occupied == OccupiedBins(PyIndex(CenterList(w), center), w)
    IN  [n_bins        |-> w,
         snr           |-> s,
         center_freq   |-> center,
         occupied_bins |-> PySet(occupied),
         guard_bins    |-> PySet(GuardBins(occupied))]

\* the check made against the occupied bins only
OverlapsOccupiedOnly(cand, sigs) ==
    \E i \in 1..Len(sigs) :
        Cardinality(cand.occupied_bins.set
                        \cap sigs[i].occupied_bins.set) > 0

\* the check made with the guard bins of the candidate included
OverlapsGuardToo(cand, sigs) ==
    \E i \in 1..Len(sigs) :
        LET occupied_or_guard ==
                sigs[i].occupied_bins.set \cup sigs[i].guard_bins.set
        IN  Cardinality((cand.occupied_bins.set \cup cand.guard_bins.set)
                            \cap occupied_or_guard) > 0

\* lines 160-166
Overlaps(cand, sigs) ==
    \E i \in 1..Len(sigs) :
        LET occupied_or_guard ==
                sigs[i].occupied_bins.set \cup sigs[i].guard_bins.set
        IN  Cardinality(cand.occupied_bins.set \cap occupied_or_guard) > 0

\* one pass too many
LoopTestOffByOne == Len(signals) < n_signals /\ tries <= max_tries

\* the budget is not tested
LoopTestNoBudget == Len(signals) < n_signals

\* line 109
LoopTest == Len(signals) < n_signals /\ tries < max_tries

(***************************************************************************)
(* The state before the call.                                              *)
(***************************************************************************)
NoDict == <<>>

Fresh ==
    /\ bin_edges = <<>> /\ bin_centers = <<>> /\ valid_bins = {}
    /\ signals = <<>> /\ tries = 0 /\ signal = NoDict
    /\ band_plan = NoDict
    /\ pc = "start" /\ exc = "none"
    /\ rng_seed = <<>> /\ rng_pos = 0

\* the arguments of one call, inside and outside their documented ranges;
\* what one call draws is arbitrary whatever the seed, so it runs unseeded
Configs ==
    /\ channel_bandwidth \in Bandwidths
    /\ n_bins \in -1..MaxBins
    /\ n_signals \in -1..MaxSignals
    /\ min_snr_db \in SnrLevels
    /\ max_snr_db \in SnrLevels
    /\ signal_types \in TypeLists
    /\ instance_seed = <<>>
    /\ max_signal_bins \in 0..MaxBins
    /\ max_tries \in -1..MaxTries

NoCall == [seed |-> <<>>, pc |-> "none", exc |-> "none", band_plan |-> NoDict]

Init ==
    /\ Configs
    /\ Fresh
    /\ run = 0 /\ tape = <<>> /\ first = NoCall

(***************************************************************************)
(* Lines 90-105: the grid, the seeding, the empty plan.                    *)
(***************************************************************************)
Setup ==
    /\ pc = "start"
    /\ IF n_bins = 0
       THEN \* line 90 divides by n_bins
            /\ pc' = "raised" /\ exc' = "ZeroDivisionError"
            /\ UNCHANGED <<tries, signals, signal, band_plan, grid, rng>>
       ELSE /\ bin_edges' = BinEdges(channel_bandwidth, n_bins)
            /\ bin_centers' = BinCenters(channel_bandwidth, n_bins)
            /\ rng_seed' = SeedState(instance_seed, run)
            /\ rng_pos' = 0
            /\ signals' = <<>>
            /\ tries' = 0
            /\ valid_bins' = 0..(n_bins - 1)
            /\ pc' = "loop"
            /\ UNCHANGED <<signal, band_plan, exc>>
    /\ UNCHANGED <<params, calls>>

(***************************************************************************)
(* Lines 109-173: one pass of the while loop.                              *)
(***************************************************************************)
\* how a pass ends: the dict in `signal`, the list, and the draws it made
\* an accepted candidate takes the place of the list
PassReplacing(sig, sigs, p, e, ds) ==
    /\ signal' = sig
    /\ signals' = IF Len(sigs) > Len(signals) THEN <<sig>> ELSE sigs
    /\ pc' = p
    /\ exc' = e
    /\ rng_pos' = rng_pos + Len(ds)
    /\ tape' = Taped(ds)

Pass(sig, sigs, p, e, ds) ==
    /\ signal' = sig
    /\ signals' = sigs
    /\ pc' = p
    /\ exc' = e
    /\ rng_pos' = rng_pos + Len(ds)
    /\ tape' = Taped(ds)

\* the modulation type drawn as a part of the candidate, ahead of the check
\* of lines 160-167
IterateTypeFirst ==
    /\ pc = "loop"
    /\ LoopTest
    /\ tries' = tries + 1
    /\ LET rw == <<"randint", 1, max_signal_bins>>
           rs == <<"uniform", min_snr_db, max_snr_db>>
       IN
       IF Draw(rw, 1) = {}
       THEN Pass(NoDict, signals, "raised", "ValueError", <<>>)
       ELSE \E w \in Draw(rw, 1) : \E s \in Draw(rs, 2) :
         LET valid == ValidCenters(w)
             rc    == <<"choice", Len(valid), 0>>
             d2    == <<Drawn(rw, w), Drawn(rs, s)>>
         IN
         IF Draw(rc, 3) = {}
         THEN Pass([n_bins |-> w, snr |-> s], signals,
                   "raised", "IndexError", d2)
         ELSE \E k \in Draw(rc, 3) :
           LET cand == Candidate(w, s, valid[k])
               rm   == <<"choice", Len(signal_types), 0>>
               d3   == Append(d2, Drawn(rc, k))
           IN
           IF Draw(rm, 4) = {}
           THEN Pass(cand, signals, "raised", "IndexError", d3)
           ELSE \E m \in Draw(rm, 4) :
             LET done == cand @@ [modulation_type |-> signal_types[m]]
                 d4   == Append(d3, Drawn(rm, m))
             IN  IF Overlaps(cand, signals)
                 THEN Pass(done, signals, "loop", "none", d4)
                 ELSE Pass(done, Append(signals, done), "loop", "none", d4)
    /\ UNCHANGED <<params, grid, band_plan, rng_seed, run, first>>

Iterate ==
    /\ pc = "loop"
    /\ LoopTest
    /\ tries' = tries + 1
    /\ LET rw == <<"randint", 1, max_signal_bins>>
           rs == <<"uniform", min_snr_db, max_snr_db>>
       IN
       IF Draw(rw, 1) = {}
       THEN Pass(NoDict, signals, "raised", "ValueError", <<>>)
       ELSE \E w \in Draw(rw, 1) : \E s \in Draw(rs, 2) :
         LET valid == ValidCenters(w)
             rc    == <<"choice", Len(valid), 0>>
             d2    == <<Drawn(rw, w), Drawn(rs, s)>>
         IN
         IF Draw(rc, 3) = {}
         THEN Pass([n_bins |-> w, snr |-> s], signals,
                   "raised", "IndexError", d2)
         ELSE \E k \in Draw(rc, 3) :
           LET cand == Candidate(w, s, valid[k])
               rm   == <<"choice", Len(signal_types), 0>>
               d3   == Append(d2, Drawn(rc, k))
           IN
           IF Overlaps(cand, signals)
           THEN Pass(cand, signals, "loop", "none", d3)
           ELSE IF Draw(rm, 4) = {}
           THEN Pass(cand, signals, "raised", "IndexError", d3)
           ELSE \E m \in Draw(rm, 4) :
             LET done == cand @@ [modulation_type |-> signal_types[m]]
             IN  Pass(done, Append(signals, done), "loop", "none",
                      Append(d3, Drawn(rm, m)))
    /\ UNCHANGED <<params, grid, band_plan, rng_seed, run, first>>

(***************************************************************************)
(* Lines 175-194: sets become lists, the plan is built and returned.       *)
(***************************************************************************)
Listed(sig) ==
    [sig EXCEPT !.occupied_bins = PyList(ListOfSet(@.set)),
                !.guard_bins    = PyList(ListOfSet(@.set))]

\* the requested count is reported
BandPlanRequested(sigs) ==
    [freq_span |-> channel_bandwidth,
     n_bins    |-> n_bins,
     n_signals |-> n_signals,
     signals   |-> sigs]

BandPlan(sigs) ==
    [freq_span |-> channel_bandwidth,
     n_bins    |-> n_bins,
     n_signals |-> Len(sigs),
     signals   |-> sigs]

Finish ==
    /\ pc = "loop"
    /\ ~LoopTest
    /\ signals' = [i \in 1..Len(signals) |-> Listed(signals[i])]
    /\ signal' = IF signals = <<>> THEN signal ELSE signals'[Len(signals)]
    /\ band_plan' = BandPlan(signals')
    /\ pc' = "done"
    /\ UNCHANGED <<params, grid, tries, exc, rng, calls>>

Next == Setup \/ Iterate \/ Finish

Spec == Init /\ [][Next]_vars

\* the scheduling of a sequential program: a step that can be taken is taken
FairSpec == Spec /\ WF_vars(Next)

(***************************************************************************)
(* Two calls in a row with the same arguments.                             *)
(***************************************************************************)
\* the arguments of the two calls: a request that the grid cannot always
\* meet, so that passes are accepted, rejected and cut short by the budget
ConfigsTwice ==
    /\ channel_bandwidth \in Bandwidths
    /\ n_bins \in 0..MaxBins
    /\ n_signals = MaxSignals
    /\ min_snr_db = SetMin(SnrLevels)
    /\ max_snr_db = SetMax(SnrLevels)
    /\ signal_types = AllTypes
    /\ instance_seed \in Seeds \ {<<>>}
    /\ max_signal_bins \in {1, 2}
    /\ max_tries = MaxTries

InitTwice ==
    /\ ConfigsTwice
    /\ Fresh
    /\ run = 1 /\ tape = <<>> /\ first = NoCall

Again ==
    /\ run = 1
    /\ pc \in {"done", "raised"}
    /\ first' = [seed |-> rng_seed, pc |-> pc, exc |-> exc,
                 band_plan |-> band_plan]
    /\ run' = 2
    /\ bin_edges' = <<>> /\ bin_centers' = <<>> /\ valid_bins' = {}
    /\ signals' = <<>> /\ tries' = 0 /\ signal' = NoDict
    /\ band_plan' = NoDict
    /\ pc' = "start" /\ exc' = "none"
    /\ rng_pos' = 0
    /\ UNCHANGED <<params, rng_seed, tape>>

NextTwice == Setup \/ Iterate \/ Finish \/ Again

SpecTwice == InitTwice /\ [][NextTwice]_vars

(***************************************************************************)
(* Properties.                                                             *)
(***************************************************************************)
Elems(seq) == {seq[i] : i \in 1..Len(seq)}

\* the bins of a signal: sets in the loop, lists in the plan
Bins(b)       == IF "set" \in DOMAIN b THEN b.set ELSE Elems(b.list)
Occupied(sig) == Bins(sig.occupied_bins)
Guard(sig)    == Bins(sig.guard_bins)

Returned   == pc = "done"
Raised     == pc = "raised"
Terminated == Returned \/ Raised

\* a candidate that was generated: the dict of the latest pass with its bins
HasCandidate ==
    /\ pc \in {"loop", "raised"}
    /\ "occupied_bins" \in DOMAIN signal

Rejected == HasCandidate /\ pc = "loop" /\ "modulation_type" \notin DOMAIN signal

BinsInGrid(S) == S \subseteq 0..(n_bins - 1)

\* C1: in every state of the accepted list and in every returned plan, any
\* two distinct signals have disjoint occupied bins, and the occupied bins
\* of each are disjoint from the occupied-or-guard bins of the other, in
\* both directions of the acceptance order.
C1_Disjoint ==
    \A i \in 1..Len(signals) : \A j \in 1..Len(signals) :
        i # j =>
            /\ Occupied(signals[i]) \cap Occupied(signals[j]) = {}
            /\ Occupied(signals[i])
                   \cap (Occupied(signals[j]) \cup Guard(signals[j])) = {}

\* a signal was accepted, a candidate was rejected, and a second signal was
\* accepted below the first one
C1_Witness ==
    /\ pc = "loop"
    /\ Len(signals) = 2
    /\ tries = 3
    /\ SetMax(signals[2].occupied_bins.set)
           < SetMin(signals[1].occupied_bins.set)

\* C2: with n_bins >= 1 and 1 <= max_signal_bins <= n_bins, every occupied
\* and guard bin of every generated candidate, accepted or rejected, and of
\* every signal of the accepted list and of the returned plan is in
\* 0..n_bins-1.
C2_Containment ==
    (n_bins >= 1 /\ 1 <= max_signal_bins /\ max_signal_bins <= n_bins) =>
        /\ HasCandidate =>
               /\ BinsInGrid(signal.occupied_bins.set)
               /\ BinsInGrid(signal.guard_bins.set)
        /\ \A i \in 1..Len(signals) :
               /\ BinsInGrid(Occupied(signals[i]))
               /\ BinsInGrid(Guard(signals[i]))
        /\ Returned =>
               \A i \in 1..Len(band_plan.signals) :
                   /\ BinsInGrid(Elems(band_plan.signals[i].occupied_bins.list))
                   /\ BinsInGrid(Elems(band_plan.signals[i].guard_bins.list))

\* a rejected candidate at the top of the grid whose guard bin wrapped to 0
C2_Witness ==
    /\ n_bins >= 3 /\ max_signal_bins = n_bins
    /\ Rejected
    /\ n_bins - 1 \in signal.occupied_bins.set
    /\ 0 \in signal.guard_bins.set

\* C3: in every returned plan the occupied bins of a signal are exactly its
\* width many consecutive integers min..min+width-1, inside the grid.
C3_Contiguous ==
    Returned =>
        \A i \in 1..Len(band_plan.signals) :
            LET sig == band_plan.signals[i]
                occ == Elems(sig.occupied_bins.list)
                lo  == SetMin(occ)
            IN  /\ Len(sig.occupied_bins.list) = sig.n_bins
                /\ occ # {}
                /\ occ = lo..(lo + sig.n_bins - 1)
                /\ 0 <= lo
                /\ lo + sig.n_bins - 1 <= n_bins - 1

\* a plan with a signal three bins wide that reaches the top of the grid
C3_Witness ==
    /\ Returned
    /\ \E i \in 1..Len(band_plan.signals) :
          /\ band_plan.signals[i].n_bins = 3
          /\ n_bins - 1 \in Elems(band_plan.signals[i].occupied_bins.list)

\* C4: for max_tries >= 0 and n_signals >= 0, tries never exceeds max_tries
\* and the accepted list never holds more than n_signals signals, and the
\* returned n_signals never exceeds the requested count.
C4_Bounded ==
    (max_tries >= 0 /\ n_signals >= 0) =>
        /\ tries <= max_tries
        /\ Len(signals) <= n_signals
        /\ Returned => band_plan.n_signals <= n_signals

\* the budget and the target are both met at once, after a rejection
C4_Witness ==
    /\ Returned
    /\ max_tries > 0 /\ n_signals > 0
    /\ tries = max_tries
    /\ band_plan.n_signals = n_signals

\* C5: within the documented ranges n_signals >= 0 and max_tries >= 0, the
\* call terminates whatever is drawn; the loop makes at most max_tries
\* passes; a returned plan has len(signals) = n_signals or tries = max_tries;
\* and when the budget is used up with fewer signals than requested the call
\* returns a plan, it does not raise.
C5_Termination ==
    /\ <>Terminated
    /\ []((max_tries >= 0 /\ n_signals >= 0) =>
            /\ tries <= max_tries
            /\ Returned => (Len(signals) = n_signals \/ tries = max_tries))
    /\ [][(pc = "loop" /\ tries >= max_tries) => pc' = "done"]_vars
    /\ [][(pc = "loop" /\ pc' # "done") => tries' = tries + 1]_vars

\* the budget ran out after a rejection, with one signal of two requested
C5_Witness ==
    /\ Returned
    /\ tries = max_tries /\ max_tries = MaxTries
    /\ n_signals = 2
    /\ band_plan.n_signals = 1

\* C6: two calls with the same arguments and the same seed, hence the same
\* stream of draws, end alike: both return, with plans equal field for
\* field, or both raise the same exception.
C6_Determinism ==
    (run = 2 /\ instance_seed # <<>> /\ Terminated) =>
        /\ pc = first.pc
        /\ exc = first.exc
        /\ band_plan = first.band_plan

\* the second call returned a plan of two signals after a rejected pass
C6_Witness ==
    /\ run = 2
    /\ instance_seed # <<>>
    /\ Returned
    /\ band_plan.n_signals = 2
    /\ tries = 3

\* C7 as stated: with max_tries = 0, or with n_signals = 0, the call returns
\* a plan with n_signals = 0 and no signals, whatever the other parameters.
C7_Original ==
    ((max_tries = 0 \/ n_signals = 0) /\ Terminated) =>
        /\ Returned
        /\ band_plan.n_signals = 0
        /\ band_plan.signals = <<>>

\* C7 amended: with max_tries = 0, or with n_signals = 0, and n_bins # 0,
\* the call raises nothing, makes no pass, generates no candidate, draws
\* nothing, and what it returns is a plan with n_signals = 0 and no signals.
C7_EmptyPlan ==
    (n_bins # 0 /\ (max_tries = 0 \/ n_signals = 0)) =>
        /\ ~Raised
        /\ pc = "loop" => ~LoopTest
        /\ tries = 0
        /\ signals = <<>>
        /\ signal = NoDict
        /\ rng_pos = 0
        /\ Returned => /\ band_plan.n_signals = 0
                        /\ band_plan.signals = <<>>

\* an empty plan was returned for max_tries = 0 although signals were
\* requested and no width could have been drawn
C7_Witness ==
    /\ Returned
    /\ max_tries = 0
    /\ n_signals > 0
    /\ max_signal_bins = 0
    /\ band_plan.n_signals = 0

SameSignal(a, b) ==
    /\ DOMAIN a = DOMAIN b
    /\ a.n_bins = b.n_bins
    /\ a.snr = b.snr
    /\ a.center_freq = b.center_freq
    /\ a.modulation_type = b.modulation_type
    /\ Occupied(a) = Occupied(b)
    /\ Guard(a) = Guard(b)

\* C9: the returned plan has freq_span = channel_bandwidth, n_bins = the
\* given n_bins, n_signals = the number of its signals (not the requested
\* count), and its signals are the accepted ones in the order of their
\* acceptance: a pass that accepts appends at the end, and the plan lists
\* the accepted list position by position.
C9_Plan ==
    /\ [](Returned =>
            /\ band_plan.freq_span = channel_bandwidth
            /\ band_plan.n_bins = n_bins
            /\ band_plan.n_signals = Len(band_plan.signals))
    /\ [][(pc = "loop" /\ pc' = "loop") =>
             \/ signals' = signals
             \/ signals' = Append(signals, signal')]_vars
    /\ [][(pc = "loop" /\ pc' = "done") =>
             /\ Len(band_plan'.signals) = Len(signals)
             /\ \A i \in 1..Len(signals) :
                    SameSignal(band_plan'.signals[i], signals[i])]_vars

\* a plan of two signals whose second signal lies below its first
C9_Witness ==
    /\ Returned
    /\ band_plan.n_signals = 2
    /\ SetMax(Occupied(band_plan.signals[2]))
           < SetMin(Occupied(band_plan.signals[1]))

\* a structural precondition is violated: no signal type, an empty snr
\* interval, no bin, or no width that has a position on the grid
StructurallyInvalid ==
    \/ signal_types = <<>>
    \/ min_snr_db > max_snr_db
    \/ n_bins < 1
    \/ max_signal_bins < 1

FirstPassRaises ==
    \/ signal_types = <<>>
    \/ n_bins < 0
    \/ max_signal_bins < 1

Documented ==
    /\ n_bins >= 1
    /\ 1 <= max_signal_bins /\ max_signal_bins <= n_bins
    /\ signal_types # <<>>
    /\ min_snr_db <= max_snr_db
    /\ n_signals >= 0
    /\ max_tries >= 0

\* C11 as stated: inside the documented ranges every width in
\* 1..max_signal_bins, width = n_bins included, has a valid center, no draw
\* of a candidate fails, and the call ends with a plan, never with an
\* exception.
C11_Claim ==
    Documented =>
        /\ ~Raised
        /\ pc = "loop" =>
               \A w \in 1..max_signal_bins : ValidCenters(w) # <<>>

\* the edges with the Python indices half..n_bins-half: bin_edges without its
\* first half and its last half entries
EdgesTrimmedByHalf(w) ==
    [i \in 1..(n_bins - 2 * HalfOf(w) + 1) |-> bin_edges[HalfOf(w) + i]]

\* C12 as stated: for an even width the valid centers are bin_edges without
\* its first half and its last half entries, the edges half..n_bins-half,
\* and the candidate drawn at edge e occupies e-half..e-half+width-1.
C12_Claim ==
    /\ (pc = "loop" /\ n_bins >= 1) =>
          \A w \in 1..max_signal_bins :
              (w % 2 = 0 /\ w <= n_bins) =>
                  ValidCenters(w) = EdgesTrimmedByHalf(w)
    /\ (HasCandidate /\ signal.n_bins % 2 = 0) =>
          LET e == PyIndex(bin_edges, signal.center_freq)
              h == HalfOf(signal.n_bins)
          IN  signal.occupied_bins.set = (e - h)..(e - h + signal.n_bins - 1)

\* the two bins next to a span, each taken modulo n_bins
WrappedNeighbours(S) ==
    {(SetMin(S) - 1) % n_bins, (SetMax(S) + 1) % n_bins}

\* C13: the guard bins of every generated candidate and of every accepted
\* signal are the bin below the lowest occupied bin and the bin above the
\* highest one, each modulo n_bins: bin 0 is guarded by bin n_bins-1 and bin
\* n_bins-1 by bin 0, so no list of accepted signals and no returned plan has
\* one signal on bin 0 and another one on bin n_bins-1.
C13_WrappedGuards ==
    /\ HasCandidate =>
          /\ Guard(signal) = WrappedNeighbours(Occupied(signal))
          /\ 0 \in Occupied(signal) => (n_bins - 1) \in Guard(signal)
          /\ (n_bins - 1) \in Occupied(signal) => 0 \in Guard(signal)
    /\ \A i \in 1..Len(signals) :
          /\ Guard(signals[i]) = WrappedNeighbours(Occupied(signals[i]))
          /\ \A j \in 1..Len(signals) :
                i # j => ~(/\ 0 \in Occupied(signals[i])
                           /\ (n_bins - 1) \in Occupied(signals[j]))
    /\ Returned =>
          \A i, j \in 1..Len(band_plan.signals) :
              i # j => ~(/\ 0 \in Occupied(band_plan.signals[i])
                         /\ (n_bins - 1) \in Occupied(band_plan.signals[j]))

\* a candidate on the topmost bin alone, two bins away from everything the
\* accepted signal on bin 0 occupies, is rejected by the wrapped guard bin
C13_Witness ==
    /\ Rejected
    /\ n_bins = 4
    /\ Len(signals) = 1
    /\ Occupied(signals[1]) = {0}
    /\ Occupied(signal) = {n_bins - 1}
    /\ Guard(signal) = {n_bins - 2, 0}

\* the latest pass ended at the draw of the center: the dict holds the width
\* and the snr and nothing else (line 127 or line 141 raised)
FailedAtCenter ==
    /\ Raised
    /\ exc = "IndexError"
    /\ DOMAIN signal = {"n_bins", "snr"}

\* the pass that is taken from the current state draws width w and finds no
\* valid center for it
NoCenterFor(w) ==
    /\ w \in 1..max_signal_bins
    /\ \/ n_bins <= 0
       \/ w > n_bins
       \/ ValidCenters(w) = <<>>

\* C14: a pass whose width leaves no valid center (a width above n_bins, a
\* grid with n_bins <= 0) ends at once with an error and leaves the accepted
\* list as it was; a center is only ever chosen for a width that fits the
\* grid, from an index inside the list of centers, and no signal with a bin
\* outside 0..n_bins-1 is appended.
C14_FailFast ==
    [][ /\ (pc = "loop" /\ pc' # "done" /\ "n_bins" \in DOMAIN signal'
                /\ NoCenterFor(signal'.n_bins))
            => (FailedAtCenter' /\ signals' = signals)
        /\ (pc = "loop" /\ "center_freq" \in DOMAIN signal' /\ pc' # "done")
            => /\ n_bins >= 1
               /\ signal'.n_bins <= n_bins
               /\ PyIndex(CenterList(signal'.n_bins), signal'.center_freq)
                      \in HalfOf(signal'.n_bins)
                              ..(n_bins - 1 - HalfOf(signal'.n_bins))
               /\ BinsInGrid(Occupied(signal'))
        /\ \A i \in 1..Len(signals') :
               /\ Occupied(signals'[i]) # {}
               /\ BinsInGrid(Occupied(signals'[i]))
      ]_vars

\* a width above n_bins is drawn after a signal was accepted: the call ends
\* with IndexError, the accepted signal still in the list
C14_Witness ==
    /\ FailedAtCenter
    /\ n_bins >= 1
    /\ signal.n_bins > n_bins
    /\ Len(signals) = 1
    /\ tries = 2

\* the candidate meets the occupied or the guard bins of an accepted signal
MeetsAccepted(cand, sigs) ==
    \E i \in 1..Len(sigs) :
        Occupied(cand) \cap (Occupied(sigs[i]) \cup Guard(sigs[i])) # {}

\* C15: every pass of the loop adds exactly 1 to tries, whatever becomes of
\* the candidate; a candidate whose occupied bins meet the occupied-or-guard
\* bins of an accepted signal leaves signals as it was, and any other
\* candidate is appended, alone, at the end.
C15_PassEffect ==
    [][ pc = "loop" /\ pc' # "done" =>
          /\ tries' = tries + 1
          /\ (pc' = "loop" /\ MeetsAccepted(signal', signals))
                => signals' = signals
          /\ (pc' = "loop" /\ ~MeetsAccepted(signal', signals))
                => signals' = Append(signals, signal')
          /\ pc' = "raised" => signals' = signals
      ]_vars

\* a second candidate in a row is rejected against the one accepted signal
C15_Witness ==
    /\ Rejected
    /\ tries = 3
    /\ Len(signals) = 1
    /\ MeetsAccepted(signal, signals)
    /\ signal.n_bins = 2

SignalKeys ==
    {"n_bins", "snr", "center_freq", "occupied_bins", "guard_bins",
     "modulation_type"}

\* C16: the list of accepted signals only grows at its end. A pass of the
\* loop keeps every signal it finds, unchanged and in its place; the returned
\* plan holds the signals of the last loop state, in the same order, with
\* the same width, snr, center, modulation and the same occupied and guard
\* bins; every signal of the list and of the plan has all six fields, and a
\* rejected candidate is not in the list.
C16_AppendOnly ==
    [][ /\ (pc = "loop" /\ pc' # "done") =>
              /\ Len(signals) <= Len(signals')
              /\ Len(signals') <= Len(signals) + 1
              /\ \A i \in 1..Len(signals) : signals'[i] = signals[i]
              /\ Rejected' => signal' \notin Elems(signals')
        /\ (pc = "loop" /\ pc' = "done") =>
              /\ Len(band_plan'.signals) = Len(signals)
              /\ \A i \in 1..Len(signals) :
                     SameSignal(signals[i], band_plan'.signals[i])
        /\ \A i \in 1..Len(signals') : DOMAIN signals'[i] = SignalKeys
      ]_vars

\* a plan is returned with two signals after three passes, one of which
\* rejected its candidate
C16_Witness ==
    /\ Returned
    /\ Len(band_plan.signals) = 2
    /\ tries = 3
    /\ Occupied(band_plan.signals[1]) = {3}
    /\ Occupied(band_plan.signals[2]) = {1}

\* some guard bin of the candidate is a guard bin of an accepted signal
SharesGuard(cand, sigs) ==
    \E i \in 1..Len(sigs) : Guard(cand) \cap Guard(sigs[i]) # {}

\* C17: guard bins may coincide. A candidate whose guard bins meet the guard
\* bins of an accepted signal, while its occupied bins stay clear of the
\* occupied and the guard bins of every accepted signal, is accepted: it
\* becomes the last signal of the list.
C17_SharedGuards ==
    [][ ( /\ pc = "loop" /\ pc' = "loop"
          /\ SharesGuard(signal', signals)
          /\ ~MeetsAccepted(signal', signals) )
        => ( /\ Len(signals') = Len(signals) + 1
             /\ signals'[Len(signals')] = signal'
             /\ SharesGuard(signals'[Len(signals')], signals) )
      ]_vars

\* the plan of the signals on {0} and on {2}, both guarded by bin 1
C17_Witness ==
    /\ Returned
    /\ band_plan.n_signals = 2
    /\ Occupied(band_plan.signals[1]) = {0}
    /\ Occupied(band_plan.signals[2]) = {2}
    /\ 1 \in Guard(band_plan.signals[1]) \cap Guard(band_plan.signals[2])

\* C18 as stated: every pass that generates a candidate, accepted or
\* rejected, draws width, snr, center and modulation, four values, and the
\* candidate has its modulation_type when the check is made.
C18_Original ==
    [][ (pc = "loop" /\ pc' = "loop") =>
            /\ rng_pos' = rng_pos + 4
            /\ "modulation_type" \in DOMAIN signal'
      ]_vars

\* the draws the pass added to the recorded stream of the first call
NewDraws == SubSeq(tape', Len(tape) + 1, Len(tape'))

DrawKinds(ds) == [i \in 1..Len(ds) |-> ds[i].req[1]]

\* the first three draws of the pass made the width, the snr and the center
\* of the dict the pass leaves behind
ThreeDrawsMade(ds, sig) ==
    /\ ds[1].val = sig.n_bins
    /\ ds[2].val = sig.snr
    /\ ValidCenters(sig.n_bins)[ds[3].val] = sig.center_freq

\* C18 amended: the modulation type is drawn after the collision check and
\* only for a candidate that passed it. A rejected pass consumes three draws,
\* width, snr and center in this order, and its candidate has no
\* modulation_type; an accepted pass consumes four, width, snr, center and
\* modulation in this order.
C18_DrawOrder ==
    [][ (pc = "loop" /\ pc' = "loop") =>
          IF MeetsAccepted(signal', signals)
          THEN /\ rng_pos' = rng_pos + 3
               /\ "modulation_type" \notin DOMAIN signal'
               /\ signals' = signals
               /\ run = 1 =>
                    /\ DrawKinds(NewDraws) = <<"randint", "uniform", "choice">>
                    /\ ThreeDrawsMade(NewDraws, signal')
          ELSE /\ rng_pos' = rng_pos + 4
               /\ "modulation_type" \in DOMAIN signal'
               /\ signals' = Append(signals, signal')
               /\ run = 1 =>
                    /\ DrawKinds(NewDraws)
                          = <<"randint", "uniform", "choice", "choice">>
                    /\ ThreeDrawsMade(NewDraws, signal')
                    /\ signal_types[NewDraws[4].val] = signal'.modulation_type
      ]_vars

\* the first call accepted a signal with four draws and then rejected a
\* candidate with three
C18_Witness ==
    /\ run = 1
    /\ Rejected
    /\ tries = 2
    /\ Len(signals) = 1
    /\ rng_pos = 7
    /\ Len(tape) = 7
    /\ tape[4].req[1] = "choice"
    /\ tape[5].req[1] = "randint"

RECURSIVE SumWidths(_)
SumWidths(sigs) ==
    IF sigs = <<>> THEN 0
    ELSE sigs[1].n_bins + SumWidths(Tail(sigs))

\* the most signals a grid of n bins can hold: max(1, floor(n / 2))
Capacity(n) == IF n \div 2 > 1 THEN n \div 2 ELSE 1

\* the bin above the top of the span, around the grid boundary
NextAbove(sig) == (SetMax(Occupied(sig)) + 1) % n_bins

\* C19: with two or more accepted signals, the widths and one free bin per
\* signal fit into the grid: the bin that follows each signal cyclically is
\* occupied by no signal, and the bins that follow different signals are
\* different, so the sum of the widths plus the number of signals is at most
\* n_bins; the list, and the returned plan, never hold more than
\* max(1, floor(n_bins / 2)) signals.
C19_Capacity ==
    /\ Len(signals) >= 2 =>
          /\ SumWidths(signals) + Len(signals) <= n_bins
          /\ \A i, j \in 1..Len(signals) :
                /\ NextAbove(signals[i]) \notin Occupied(signals[j])
                /\ i # j => NextAbove(signals[i]) # NextAbove(signals[j])
    /\ Len(signals) <= Capacity(n_bins)
    /\ Returned =>
          /\ band_plan.n_signals <= Capacity(n_bins)
          /\ Len(band_plan.signals) <= Capacity(n_bins)

\* a grid filled to its capacity: two signals whose widths and two free
\* bins take up all of n_bins, with tries left in the budget
C19_Witness ==
    /\ pc = "loop"
    /\ Len(signals) = 2
    /\ SumWidths(signals) + 2 = n_bins
    /\ Len(signals) = Capacity(n_bins)
    /\ tries < max_tries

\* C20: a generated candidate narrower than the grid has one or two guard
\* bins, none of them among its own occupied bins; it has exactly one guard
\* bin when, and only when, its width is n_bins - 1 (the bin below and the
\* bin above the span are then the same bin); a candidate has a guard bin
\* inside its own span only when its width is n_bins.
C20_OwnGuards ==
    HasCandidate =>
        LET width == signal.n_bins
            own   == Guard(signal) \cap Occupied(signal)
        IN  /\ Cardinality(Occupied(signal)) = width
            /\ width < n_bins =>
                  /\ Guard(signal) # {}
                  /\ Cardinality(Guard(signal)) <= 2
                  /\ own = {}
                  /\ Guard(signal) \subseteq valid_bins
                  /\ (Cardinality(Guard(signal)) = 1) <=> (width = n_bins - 1)
            /\ own # {} => width = n_bins
            /\ width = n_bins => Guard(signal) \subseteq Occupied(signal)

\* a candidate one bin narrower than a grid of four bins: the one free bin
\* is its guard bin on both sides
C20_Witness ==
    /\ HasCandidate
    /\ n_bins = 4
    /\ signal.n_bins = n_bins - 1
    /\ Occupied(signal) = {0, 1, 2}
    /\ Guard(signal) = {3}

====
